---- MODULE Spec2Model ----
(***************************************************************************)
(* A model of the chess engine of basic_chess.py and piece_classes.py: the *)
(* board dictionary, the six piece classes' move generation, make_move,    *)
(* the coordinate conversions and the console loop of main().              *)
(*                                                                         *)
(* Python strings are sequences of characters, so that the conversions     *)
(* between notation ("e2") and indices ((4, 6)) are computed character by  *)
(* character as the code computes them.                                    *)
(***************************************************************************)
EXTENDS Integers, Sequences, FiniteSets, TLC

VARIABLES
  init_pos,     \* ChessGame._init_pos: notation -> piece, the live board
  player_turn,  \* ChessGame._player_turn
  game_state,   \* ChessGame._game_state
  ret,          \* what the last make_move call returned ("NotCalled" if none)
  moved,        \* the arguments of the last make_move call that returned True
  valid,        \* what main's last is_valid_move call returned ("NotCalled" if none)
  out,          \* what the last operation printed
  calls,        \* operations so far (make_move calls, or lines read by main)
  main_pc,      \* main(): "off" (not running), "loop", "exited", "crashed"
  raised,       \* the exception that ended main(), "none" otherwise
  parsed,       \* SpecCoord: what the parse_position call returned
  cv_pc,        \* SpecCoord: the conversions applied so far, "off" elsewhere
  cv_str,       \* SpecCoord: a notation string, or the two tokens to parse
  cv_idx,       \* SpecCoord: a (col, row) tuple, as the value of a call
  cv_back       \* SpecCoord: the end of a round trip

vars == <<init_pos, player_turn, game_state, ret, moved, valid, out, calls,
          main_pc, raised, parsed, cv_pc, cv_str, cv_idx, cv_back>>

game_vars == <<init_pos, player_turn, game_state>>
conv_vars == <<parsed, cv_pc, cv_str, cv_idx, cv_back>>

(***************************************************************************)
(* Bounds of the model.                                                    *)
(***************************************************************************)
\* make_move calls made by a direct caller in one behaviour of Spec
MaxCalls == 2
\* lines of console input read by main() in one behaviour of SpecMain
MaxLines == 3

\* make_move calls made in one behaviour of SpecMarch
MaxPlies == 9

(***************************************************************************)
(* Characters are their code points (ord and chr are then the identity of  *)
(* the representation): "e2" is <<101, 50>>.  Str(file, rank) writes the   *)
(* notation of file 1..8 (a..h) and rank 1..8.                             *)
(***************************************************************************)
Str(file, rank) == <<96 + file, 48 + rank>>

\* Python's ord() of a one-character string
ord(c) == c

\* Python's chr()
chr(n) == n

\* str.lower() of one character: A..Z (65..90) map to a..z, the rest is kept
lower_char(c) == IF c >= 65 /\ c <= 90 THEN c + 32 ELSE c

\* str.lower() of a string
lower(s) == [i \in 1..Len(s) |-> lower_char(s[i])]

\* "0".."9" are the code points 48..57
IsDigit(c) == c >= 48 /\ c <= 57

RECURSIVE DigitsValue(_)
DigitsValue(s) ==
  IF Len(s) = 0 THEN 0
  ELSE 10 * DigitsValue(SubSeq(s, 1, Len(s) - 1)) + (s[Len(s)] - 48)

\* the part of an int() literal after an optional sign ("+" is 43, "-" is 45)
Unsigned(s) == IF Len(s) > 0 /\ s[1] \in {43, 45} THEN Tail(s) ELSE s

\* int(s) succeeds: an optional sign and at least one digit (the inputs of
\* the model hold no whitespace and no underscore); otherwise ValueError
IsIntLiteral(s) ==
  LET digits == Unsigned(s)
  IN  Len(digits) > 0 /\ \A i \in 1..Len(digits) : IsDigit(digits[i])

\* Python's int() of a string for which IsIntLiteral holds
int(s) ==
  IF Len(s) > 0 /\ s[1] = 45 THEN 0 - DigitsValue(Unsigned(s))
  ELSE DigitsValue(Unsigned(s))

RECURSIVE NatStr(_)
NatStr(n) ==
  IF n < 10 THEN <<48 + n>>
  ELSE NatStr(n \div 10) \o <<48 + (n % 10)>>

\* Python's str() of an integer
str(n) == IF n < 0 THEN <<45>> \o NatStr(0 - n) ELSE NatStr(n)

(***************************************************************************)
(* Values of a call: what it returned, or the exception it raised.         *)
(***************************************************************************)
Returned(v) == [raised |-> "none", value |-> v]
Raised(e) == [raised |-> e, value |-> <<>>]

(***************************************************************************)
(* ChessGame.coord_to_index and ChessGame.index_to_coord                   *)
(***************************************************************************)
\* coord_str[0] raises IndexError on the empty string; int() raises
\* ValueError on a rest that is no integer literal
coord_to_index(coord_str) ==
  IF Len(coord_str) = 0 THEN Raised("IndexError")
  ELSE IF ~IsIntLiteral(Tail(coord_str)) THEN Raised("ValueError")
  ELSE LET col == ord(lower_char(coord_str[1])) - 97
           row == 8 - int(Tail(coord_str))
       IN  Returned(<<col, row>>)

\* index_to_coord without the flip of the row: row 0 written as rank 1
index_to_coord_unflipped(col, row) == <<chr(col + 97)>> \o str(row + 1)

index_to_coord(col, row) ==
  LET letter_a_ascii == 97
      col_ascii == col + letter_a_ascii
      col_letter == chr(col_ascii)
      row_num == str((7 - row) + 1)
  IN  <<col_letter>> \o row_num

(***************************************************************************)
(* Pieces (piece_classes.py).  A piece is a record of its class and its    *)
(* attributes; only Pawn.__init__ sets _init_move, the other classes get   *)
(* the attribute when make_move first assigns it.                          *)
(***************************************************************************)
None == [cls |-> "NoneType"]

Pawn(color, position) ==
  [cls |-> "Pawn", color |-> color, position |-> position, init_move |-> TRUE]

Rook(color, position) == [cls |-> "Rook", color |-> color, position |-> position]

Knight(color, position) == [cls |-> "Knight", color |-> color, position |-> position]

Bishop(color, position) == [cls |-> "Bishop", color |-> color, position |-> position]

Queen(color, position) == [cls |-> "Queen", color |-> color, position |-> position]

King(color, position) == [cls |-> "King", color |-> color, position |-> position]

\* a constructor that stores the square a1 whatever position it is given
New_misplaced(cls, color, position) ==
  [cls |-> cls, color |-> color, position |-> Str(1, 1)]

\* the constructor of a class, by name
New(cls, color, position) ==
  CASE cls = "Pawn" -> Pawn(color, position)
    [] cls = "Rook" -> Rook(color, position)
    [] cls = "Knight" -> Knight(color, position)
    [] cls = "Bishop" -> Bishop(color, position)
    [] cls = "Queen" -> Queen(color, position)
    [] cls = "King" -> King(color, position)

\* the code points of piece.unicode(), as four hexadecimal digits
unicode(piece) ==
  CASE piece.cls = "Pawn" -> IF piece.color = "WHITE" THEN "2659" ELSE "265F"
    [] piece.cls = "Rook" -> IF piece.color = "WHITE" THEN "2656" ELSE "265C"
    [] piece.cls = "Knight" -> IF piece.color = "WHITE" THEN "2658" ELSE "265E"
    [] piece.cls = "Bishop" -> IF piece.color = "WHITE" THEN "2657" ELSE "265D"
    [] piece.cls = "Queen" -> IF piece.color = "WHITE" THEN "2655" ELSE "265B"
    [] piece.cls = "King" -> IF piece.color = "WHITE" THEN "2654" ELSE "265A"

(***************************************************************************)
(* ChessGame._board_start: the dictionary _init_pos, keyed by notation.    *)
(***************************************************************************)
BlackHomeRank == <<"Rook", "Knight", "Bishop", "King", "Queen", "Bishop", "Knight", "Rook">>
WhiteHomeRank == <<"Rook", "Knight", "Bishop", "Queen", "King", "Bishop", "Knight", "Rook">>

StartKeys == {Str(file, rank) : file \in 1..8, rank \in {1, 2, 7, 8}}

\* the file 1..8 and the rank 1..8 a well-formed key names
FileOf(key) == key[1] - 96
RankOf(key) == key[2] - 48

board_start ==
  [key \in StartKeys |->
     CASE RankOf(key) = 8 -> New(BlackHomeRank[FileOf(key)], "BLACK", key)
       [] RankOf(key) = 7 -> Pawn("BLACK", key)
       [] RankOf(key) = 2 -> Pawn("WHITE", key)
       [] RankOf(key) = 1 -> New(WhiteHomeRank[FileOf(key)], "WHITE", key)]

(***************************************************************************)
(* Queries of the board.  The code's get_piece takes a tuple or a string   *)
(* (isinstance(pos, tuple)); the model has one operator for each.          *)
(***************************************************************************)
\* dict.get(key): None when the key is absent
dict_get(pos, key) == IF key \in DOMAIN pos THEN pos[key] ELSE None

\* get_piece called with a notation string
get_piece(pos, position) == dict_get(pos, lower(position))

\* get_piece called with a (col, row) tuple
get_piece_at(pos, index) == get_piece(pos, index_to_coord(index[1], index[2]))

\* is_square_open that takes every square for empty
is_square_open_always(pos, position) == TRUE

is_square_open(pos, position) ==
  LET key == lower(position)
  IN  key \notin DOMAIN pos \/ pos[key] = None

\* is_opponent that takes every piece for an opponent
is_opponent_always(pos, position, color) == TRUE

\* is_opponent that finds no opponent anywhere
is_opponent_never(pos, position, color) == FALSE

is_opponent(pos, position, color) ==
  LET piece == get_piece(pos, position)
  IN  IF piece = None THEN FALSE ELSE piece.color # color

\* x in list
InList(x, list) == \E i \in 1..Len(list) : list[i] = x

(***************************************************************************)
(* Move generation: the valid_moves method of each piece class.  Each      *)
(* returns the list the code builds, in the order it appends.              *)
(***************************************************************************)
RECURSIVE Flatten(_)
Flatten(lists) == IF Len(lists) = 0 THEN <<>> ELSE Head(lists) \o Flatten(Tail(lists))

\* the bounds test that lets every square through
InBounds_always(col, row) == TRUE

InBounds(col, row) == 0 <= col /\ col < 8 /\ 0 <= row /\ row < 8

\* Pawn.valid_moves with the two-square advance under the test of the square
\* straight ahead: a pawn that cannot jump
Pawn_valid_moves_blocked(piece, pos) ==
  LET start == coord_to_index(piece.position).value
      direction == IF piece.color = "WHITE" THEN 1 ELSE -1
      forward_reg == start[2] - direction
      move_forward == index_to_coord(start[1], forward_reg)
      forward_move1 == start[2] - (2 * direction)
      double ==
        IF piece.init_move /\ 8 > forward_move1 /\ forward_move1 >= 0
           /\ is_square_open(pos, index_to_coord(start[1], forward_move1))
        THEN <<index_to_coord(start[1], forward_move1)>>
        ELSE <<>>
      forward == IF 8 > forward_reg /\ forward_reg >= 0 /\ is_square_open(pos, move_forward)
                 THEN <<move_forward>> \o double
                 ELSE <<>>
      capture(diagonal) ==
        LET cap_pos == index_to_coord(start[1] + diagonal, forward_reg)
        IN  IF 0 <= start[1] + diagonal /\ start[1] + diagonal < 8
               /\ is_opponent(pos, cap_pos, piece.color)
            THEN <<cap_pos>>
            ELSE <<>>
  IN  forward \o capture(-1) \o capture(1)

Pawn_valid_moves(piece, pos) ==
  LET start == coord_to_index(piece.position).value
      start_col == start[1]
      start_row == start[2]
      direction == IF piece.color = "WHITE" THEN 1 ELSE -1
      forward_reg == start_row - direction
      move_forward == index_to_coord(start_col, forward_reg)
      forward_move1 == start_row - (2 * direction)
      single == IF is_square_open(pos, move_forward) THEN <<move_forward>> ELSE <<>>
      double ==
        IF piece.init_move /\ 8 > forward_move1 /\ forward_move1 >= 0
           /\ is_square_open(pos, index_to_coord(start_col, forward_move1))
        THEN <<index_to_coord(start_col, forward_move1)>>
        ELSE <<>>
      forward == IF 8 > forward_reg /\ forward_reg >= 0 THEN single \o double ELSE <<>>
      capture(diagonal) ==
        LET cap_col == start_col + diagonal
            cap_pos == index_to_coord(cap_col, forward_reg)
        IN  IF 0 <= cap_col /\ cap_col < 8 /\ is_opponent(pos, cap_pos, piece.color)
            THEN <<cap_pos>>
            ELSE <<>>
  IN  forward \o capture(-1) \o capture(1)

\* one direction of Rook.valid_moves: for move in range(1, 8), from `move` on
RECURSIVE Rook_sweep(_, _, _, _, _, _)
Rook_sweep(piece, pos, start, diag_col, diag_row, move) ==
  LET to_col == start[1] + (diag_col * move)
      to_row == start[2] + (diag_row * move)
      next_pos == index_to_coord(to_col, to_row)
      here == IF is_square_open(pos, next_pos) THEN <<next_pos>>
              ELSE IF is_opponent(pos, next_pos, piece.color) THEN <<next_pos>>
              ELSE <<>>
  IN  IF move >= 8 THEN <<>>
      ELSE IF ~InBounds(to_col, to_row) THEN <<>>
      ELSE here \o Rook_sweep(piece, pos, start, diag_col, diag_row, move + 1)

Rook_valid_moves(piece, pos) ==
  LET start == coord_to_index(piece.position).value
      direction == <<<<0, 1>>, <<1, 0>>, <<0, -1>>, <<-1, 0>>>>
  IN  Flatten([d \in 1..4 |->
                 Rook_sweep(piece, pos, start, direction[d][1], direction[d][2], 1)])

Knight_valid_moves(piece, pos) ==
  LET start == coord_to_index(piece.position).value
      direction == << <<2, 1>>, <<1, 2>>, <<-1, 2>>, <<-2, 1>>,
                      <<-2, -1>>, <<-1, -2>>, <<1, -2>>, <<2, -1>> >>
      step(d) ==
        LET to_col == start[1] + direction[d][1]
            to_row == start[2] + direction[d][2]
            p == index_to_coord(to_col, to_row)
        IN  IF InBounds(to_col, to_row)
               /\ (is_square_open(pos, p) \/ is_opponent(pos, p, piece.color))
            THEN <<p>>
            ELSE <<>>
  IN  Flatten([d \in 1..8 |-> step(d)])

\* one direction of Bishop.valid_moves: the while True loop, from (to_col, to_row)
RECURSIVE Bishop_sweep(_, _, _, _, _)
Bishop_sweep(piece, pos, to_col, to_row, coords) ==
  LET next_col == to_col + coords[1]
      next_row == to_row + coords[2]
      target_pos == index_to_coord(next_col, next_row)
      here == IF is_square_open(pos, target_pos) THEN <<target_pos>>
              ELSE IF is_opponent(pos, target_pos, piece.color) THEN <<target_pos>>
              ELSE <<>>
  IN  IF ~(7 >= next_col /\ next_col >= 0 /\ 7 >= next_row /\ next_row >= 0) THEN <<>>
      ELSE here \o Bishop_sweep(piece, pos, next_col, next_row, coords)

Bishop_valid_moves(piece, pos) ==
  LET start == coord_to_index(piece.position).value
      direction == <<<<-1, 1>>, <<1, 1>>, <<-1, -1>>, <<1, -1>>>>
  IN  Flatten([d \in 1..4 |-> Bishop_sweep(piece, pos, start[1], start[2], direction[d])])

\* one direction of Queen.valid_moves: the while True loop, from (to_col, to_row)
RECURSIVE Queen_sweep(_, _, _, _, _)
Queen_sweep(piece, pos, to_col, to_row, coords) ==
  LET next_col == to_col + coords[1]
      next_row == to_row + coords[2]
      target_pos == index_to_coord(next_col, next_row)
      here == IF is_square_open(pos, target_pos) THEN <<target_pos>>
              ELSE IF is_opponent(pos, target_pos, piece.color) THEN <<target_pos>>
              ELSE <<>>
  IN  IF ~(7 >= next_col /\ next_col >= 0 /\ 7 >= next_row /\ next_row >= 0) THEN <<>>
      ELSE here \o Queen_sweep(piece, pos, next_col, next_row, coords)

Queen_valid_moves(piece, pos) ==
  LET start == coord_to_index(piece.position).value
      direction == << <<-1, 0>>, <<1, 0>>, <<0, -1>>, <<0, 1>>,
                      <<-1, -1>>, <<-1, 1>>, <<1, -1>>, <<1, 1>> >>
  IN  Flatten([d \in 1..8 |-> Queen_sweep(piece, pos, start[1], start[2], direction[d])])

King_valid_moves(piece, pos) ==
  LET start == coord_to_index(piece.position).value
      direction == << <<-1, 0>>, <<1, 0>>, <<0, -1>>, <<0, 1>>,
                      <<-1, -1>>, <<-1, 1>>, <<1, -1>>, <<1, 1>> >>
      step(d) ==
        LET to_col == start[1] + direction[d][1]
            to_row == start[2] + direction[d][2]
            target_pos == index_to_coord(to_col, to_row)
        IN  IF InBounds(to_col, to_row)
               /\ (is_square_open(pos, target_pos)
                   \/ is_opponent(pos, target_pos, piece.color))
            THEN <<target_pos>>
            ELSE <<>>
  IN  Flatten([d \in 1..8 |-> step(d)])

\* piece.valid_moves(): dispatch on the class of the piece
valid_moves(piece, pos) ==
  CASE piece.cls = "Pawn" -> Pawn_valid_moves(piece, pos)
    [] piece.cls = "Rook" -> Rook_valid_moves(piece, pos)
    [] piece.cls = "Knight" -> Knight_valid_moves(piece, pos)
    [] piece.cls = "Bishop" -> Bishop_valid_moves(piece, pos)
    [] piece.cls = "Queen" -> Queen_valid_moves(piece, pos)
    [] piece.cls = "King" -> King_valid_moves(piece, pos)

\* the squares Pawn.valid_moves passes to is_square_open and is_opponent, in
\* order: the forward squares under their bounds tests, each diagonal square
\* under the test of its column alone
Pawn_queried(piece, pos) ==
  LET start == coord_to_index(piece.position).value
      start_col == start[1]
      start_row == start[2]
      direction == IF piece.color = "WHITE" THEN 1 ELSE -1
      forward_reg == start_row - direction
      forward_move1 == start_row - (2 * direction)
      double == IF piece.init_move /\ 8 > forward_move1 /\ forward_move1 >= 0
                THEN <<index_to_coord(start_col, forward_move1)>>
                ELSE <<>>
      forward == IF 8 > forward_reg /\ forward_reg >= 0
                 THEN <<index_to_coord(start_col, forward_reg)>> \o double
                 ELSE <<>>
      capture(diagonal) ==
        LET cap_col == start_col + diagonal
        IN  IF 0 <= cap_col /\ cap_col < 8
            THEN <<index_to_coord(cap_col, forward_reg)>>
            ELSE <<>>
  IN  forward \o capture(-1) \o capture(1)

\* a board with no piece on it
EmptyBoard == [key \in {} |-> None]

\* the squares piece.valid_moves() asks the board about.  The five classes
\* other than Pawn pass every square that gets through their bounds test to
\* is_square_open, whatever the board holds: these are the squares they
\* return on an empty board.
queried(piece, pos) ==
  IF piece.cls = "Pawn" THEN Pawn_queried(piece, pos)
  ELSE valid_moves(piece, EmptyBoard)

(***************************************************************************)
(* Printed output.  `out` holds what the last operation printed, in order: *)
(* a line of text, or the 8x8 array of glyphs display_board builds (the    *)
(* file and rank labels around it are constant and left out).              *)
(***************************************************************************)
Line(text) == [kind |-> "line", text |-> text]
Board(grid) == [kind |-> "board", grid |-> grid]

\* the loop over _init_pos.items() writes piece.unicode() at the cell
\* coord_to_index(position) of each key; a cell no key is sent to stays ' '
display_board(pos, turn, state) ==
  LET placed == {<<coord_to_index(position).value, position>> : position \in DOMAIN pos}
      grid == [row \in 0..7 |-> [col \in 0..7 |->
                 LET here == {place \in placed : place[1] = <<col, row>>}
                 IN  IF here = {} THEN " "
                     ELSE unicode(pos[(CHOOSE place \in here : TRUE)[2]])]]
      status == IF state = "WHITE_WON" THEN "WHITE wins by capturing the BLACK king!"
                ELSE IF state = "BLACK_WON" THEN "BLACK wins by capturing the WHITE king!"
                ELSE "Player Move: " \o turn
  IN  <<Board(grid), Line(status), Line("Game State: " \o state)>>

(***************************************************************************)
(* ChessGame: set_game_state, toggle_turn, is_valid_move, make_move,       *)
(* parse_position.  Each is the function of the state it reads to what it  *)
(* returns, prints and assigns.                                            *)
(***************************************************************************)
\* set_game_state that leaves the outcome UNFINISHED
set_game_state_ignored(state) == Returned("UNFINISHED")

set_game_state(state) ==
  IF state \in {"UNFINISHED", "WHITE_WON", "BLACK_WON"} THEN Returned(state)
  ELSE Raised("InvalidStateError")

\* toggle_turn that leaves the turn where it is
toggle_turn_stuck(turn) == turn

toggle_turn(turn) == IF turn = "WHITE" THEN "BLACK" ELSE "WHITE"

\* is_valid_move without the test of the legal set
is_valid_move_any(pos, move_from, move_to) == [ret |-> TRUE, out |-> <<>>]

is_valid_move(pos, move_from, move_to) ==
  LET piece == get_piece_at(pos, move_from)
      target_square == index_to_coord(move_to[1], move_to[2])
  IN  IF piece = None
      THEN [ret |-> FALSE,
            out |-> <<Line("There is no piece at the starting square, please try again.")>>]
      ELSE IF ~InList(target_square, valid_moves(piece, pos))
      THEN [ret |-> FALSE,
            out |-> <<Line("That move is unavailable for the given piece, please try again.")>>]
      ELSE [ret |-> TRUE, out |-> <<>>]

\* what a make_move call leaves: the three attributes of the game, the value
\* returned and the output printed
Outcome(pos, turn, state, value, printed) ==
  [init_pos |-> pos, player_turn |-> turn, game_state |-> state,
   ret |-> value, out |-> printed]

\* the move without piece._position = to_square
Moved_stale(piece, to_square) ==
  [attr \in DOMAIN piece \cup {"init_move"} |->
     IF attr = "init_move" THEN FALSE ELSE piece[attr]]

\* the move without piece._init_move = False
Moved_unflagged(piece, to_square) ==
  [attr \in DOMAIN piece |-> IF attr = "position" THEN to_square ELSE piece[attr]]

\* piece._position = to_square; piece._init_move = False
Moved(piece, to_square) ==
  [attr \in DOMAIN piece \cup {"init_move"} |->
     IF attr = "position" THEN to_square
     ELSE IF attr = "init_move" THEN FALSE
     ELSE piece[attr]]

\* the two states of a king capture taken for each other
won_state_swapped(color) == IF color = "WHITE" THEN "BLACK_WON" ELSE "WHITE_WON"

\* the state a king capture sets: 'WHITE_WON' if piece.get_color() == 'WHITE'
\* else 'BLACK_WON'
won_state(color) == IF color = "WHITE" THEN "WHITE_WON" ELSE "BLACK_WON"

\* make_move without its first test
game_over_never(state) == FALSE

\* the first test of make_move: self._game_state != 'UNFINISHED'
game_over(state) == state # "UNFINISHED"

\* the second test of make_move: not piece or piece.get_color() != turn
not_on_turn(piece, turn) == piece = None \/ piece.color # turn

make_move(pos, turn, state, move_from, move_to) ==
  LET piece == get_piece_at(pos, move_from)
      target_piece == get_piece_at(pos, move_to)
      checked == is_valid_move(pos, move_from, move_to)
      from_square == index_to_coord(move_from[1], move_from[2])
      to_square == index_to_coord(move_to[1], move_to[2])
      state1 == IF target_piece.cls = "King"
                THEN set_game_state(won_state(piece.color)).value
                ELSE state
      \* _init_pos.pop(from_square); _init_pos[to_square] = piece
      pos1 == [key \in (DOMAIN pos \ {from_square}) \cup {to_square} |->
                 IF key = to_square THEN Moved(piece, to_square) ELSE pos[key]]
      rendered == display_board(pos1, turn, state1)
      turn1 == IF state1 = "UNFINISHED" THEN toggle_turn(turn) ELSE turn
  IN  IF game_over(state) THEN Outcome(pos, turn, state, FALSE, <<>>)
      ELSE IF not_on_turn(piece, turn) THEN Outcome(pos, turn, state, FALSE, <<>>)
      ELSE IF ~checked.ret
      THEN Outcome(pos, turn, state, FALSE,
                   checked.out \o <<Line("That is not a valid move, please try again.")>>)
      ELSE Outcome(pos1, turn1, state1, TRUE, checked.out \o rendered)

\* `none` tells whether the pair returned is (None, None)
parse_position(from_pos, to_pos) ==
  LET from_index == coord_to_index(from_pos)
      to_index == coord_to_index(to_pos)
  IN  IF from_index.raised # "none" \/ to_index.raised # "none"
      THEN [none |-> TRUE, ret |-> <<None, None>>,
            out |-> <<Line("Invalid move format. Please use something like A2 B3.")>>]
      ELSE [none |-> FALSE, ret |-> <<from_index.value, to_index.value>>, out |-> <<>>]

(***************************************************************************)
(* The state after construction: ChessGame.__init__.                       *)
(***************************************************************************)
NoConversion ==
  /\ parsed = <<>>
  /\ cv_pc = "off"
  /\ cv_str = <<>>
  /\ cv_idx = <<>>
  /\ cv_back = <<>>

Constructed ==
  /\ game_state = "UNFINISHED"
  /\ player_turn = "WHITE"
  /\ init_pos = board_start
  /\ ret = "NotCalled"
  /\ moved = <<>>
  /\ valid = "NotCalled"
  /\ calls = 0
  /\ raised = "none"

Init ==
  /\ Constructed
  /\ out = <<>>
  /\ main_pc = "off"
  /\ NoConversion

(***************************************************************************)
(* Spec: a caller makes make_move calls on a new game, with two squares of *)
(* the files a, b, d and e as (col, row) tuples.                           *)
(***************************************************************************)
Index == 0..7

\* the columns a caller's squares are drawn from: the files a, b, d and e
InputCols == {0, 1, 3, 4}

Squares == InputCols \X Index

BoolStr(b) == IF b THEN "True" ELSE "False"

Call(move_from, move_to) ==
  /\ calls < MaxCalls
  /\ \E after \in {make_move(init_pos, player_turn, game_state, move_from, move_to)} :
         /\ init_pos' = after.init_pos
         /\ player_turn' = after.player_turn
         /\ game_state' = after.game_state
         /\ ret' = BoolStr(after.ret)
         /\ moved' = IF after.ret THEN <<move_from, move_to>> ELSE moved
         /\ out' = after.out
  /\ calls' = calls + 1
  /\ UNCHANGED <<valid, main_pc, raised, conv_vars>>

Next == \E move_from \in Squares, move_to \in Squares : Call(move_from, move_to)

Spec == Init /\ [][Next]_vars

(***************************************************************************)
(* SpecMarch: a caller makes up to MaxPlies make_move calls on a new game,  *)
(* with squares of the march of the white a-pawn (a2 a4 a5 a6 b7 a8) and of *)
(* the black h-pawn (h7 h6 h5 h4 h3): games long enough for a pawn to reach *)
(* its farthest rank.                                                      *)
(***************************************************************************)
MarchSquares ==
  { <<0, 6>>, <<0, 4>>, <<0, 3>>, <<0, 2>>, <<1, 1>>, <<0, 0>>,
    <<7, 1>>, <<7, 2>>, <<7, 3>>, <<7, 4>>, <<7, 5>> }

Ply(move_from, move_to) ==
  /\ calls < MaxPlies
  /\ \E after \in {make_move(init_pos, player_turn, game_state, move_from, move_to)} :
         /\ init_pos' = after.init_pos
         /\ player_turn' = after.player_turn
         /\ game_state' = after.game_state
         /\ ret' = BoolStr(after.ret)
         /\ moved' = IF after.ret THEN <<move_from, move_to>> ELSE moved
         /\ out' = after.out
  /\ calls' = calls + 1
  /\ UNCHANGED <<valid, main_pc, raised, conv_vars>>

MarchNext == \E move_from \in MarchSquares, move_to \in MarchSquares : Ply(move_from, move_to)

SpecMarch == Init /\ [][MarchNext]_vars

(***************************************************************************)
(* SpecMain: main() reads lines of console input.  A line is the list of   *)
(* tokens input().strip().split() makes of it.                             *)
(***************************************************************************)
\* e2 e4 e5 a7 a6 a3 a2 d1 d8 e8 e1 E2
GoodTokens ==
  { Str(5, 2), Str(5, 4), Str(5, 5), Str(1, 7), Str(1, 6), Str(1, 3), Str(1, 2),
    Str(4, 1), Str(4, 8), Str(5, 8), Str(5, 1), <<69, 50>> }

\* e  e22  z9  i2  a0  a9  ee  2e
BadTokens ==
  { <<101>>, <<101, 50, 50>>, <<122, 57>>, <<105, 50>>, Str(1, 0), Str(1, 9),
    <<101, 101>>, <<50, 101>> }

Tokens == GoodTokens \cup BadTokens

\* no token, one token, two tokens, and one line of three
Lines ==
  {<<>>} \cup {<<t>> : t \in Tokens} \cup (Tokens \X Tokens)
  \cup {<<Str(5, 2), Str(5, 4), Str(1, 1)>>}

\* one pass of the while loop of main() on the line curr_move
main(pos, turn, state, curr_move) ==
  LET prompt == <<Line(turn \o "'s turn")>>
      position == parse_position(curr_move[1], curr_move[2])
      move_from == position.ret[1]
      move_to == position.ret[2]
      is_valid == is_valid_move(pos, move_from, move_to)
      made == make_move(pos, turn, state, move_from, move_to)
      Pass(after, value, accepted, checked, printed, pc, exception) ==
        [init_pos |-> after[1], player_turn |-> after[2], game_state |-> after[3],
         ret |-> value, accepted |-> accepted, valid |-> checked,
         out |-> printed, main_pc |-> pc, raised |-> exception]
      same == <<pos, turn, state>>
  IN  \* curr_move[0], curr_move[1] of a list of fewer than two tokens
      IF Len(curr_move) < 2
      THEN Pass(same, "NotCalled", <<>>, "NotCalled", prompt, "crashed", "IndexError")
      ELSE IF position.none
      THEN Pass(same, "NotCalled", <<>>, "NotCalled", prompt \o position.out,
                "loop", "none")
      ELSE IF ~is_valid.ret
      THEN Pass(same, "NotCalled", <<>>, "False", prompt \o is_valid.out, "loop", "none")
      ELSE Pass(<<made.init_pos, made.player_turn, made.game_state>>,
                BoolStr(made.ret), <<move_from, move_to>>, "True",
                prompt \o is_valid.out \o made.out, "loop", "none")

MainInit ==
  /\ Constructed
  /\ out = display_board(board_start, "WHITE", "UNFINISHED")
  /\ main_pc = "loop"
  /\ NoConversion

ReadLine(curr_move) ==
  /\ main_pc = "loop"
  /\ game_state = "UNFINISHED"
  /\ calls < MaxLines
  /\ \E after \in {main(init_pos, player_turn, game_state, curr_move)} :
         /\ init_pos' = after.init_pos
         /\ player_turn' = after.player_turn
         /\ game_state' = after.game_state
         /\ ret' = after.ret
         /\ moved' = IF after.ret = "True" THEN after.accepted ELSE moved
         /\ valid' = after.valid
         /\ out' = after.out
         /\ main_pc' = after.main_pc
         /\ raised' = after.raised
  /\ calls' = calls + 1
  /\ UNCHANGED conv_vars

\* the loop condition fails: main() returns
ExitLoop ==
  /\ main_pc = "loop"
  /\ game_state # "UNFINISHED"
  /\ main_pc' = "exited"
  /\ out' = <<>>
  /\ UNCHANGED <<game_vars, ret, moved, valid, calls, raised, conv_vars>>

MainNext == (\E curr_move \in Lines : ReadLine(curr_move)) \/ ExitLoop

SpecMain == MainInit /\ [][MainNext]_vars

(***************************************************************************)
(* SpecCoord: the conversions applied to inputs of their own.  A notation  *)
(* string goes through coord_to_index and back through index_to_coord; a   *)
(* (col, row) tuple goes through index_to_coord and back; two tokens go    *)
(* through parse_position.                                                 *)
(***************************************************************************)
\* a1..h8
Notations == {Str(file, rank) : file \in 1..8, rank \in 1..8}

\* A1..H8
UpperNotations == {<<64 + file, 48 + rank>> : file \in 1..8, rank \in 1..8}

CoordInputs == Notations \cup UpperNotations \cup BadTokens \cup {<<>>}

IndexInputs == Index \X Index

ParseInputs == (Tokens \cup {<<>>}) \X (Tokens \cup {<<>>})

CoordInit ==
  /\ Constructed
  /\ out = <<>>
  /\ main_pc = "off"
  /\ parsed = <<>>
  /\ cv_back = <<>>
  /\ \/ cv_pc = "coord" /\ cv_str \in CoordInputs /\ cv_idx = Returned(<<>>)
     \/ cv_pc = "index" /\ cv_str = <<>> /\ cv_idx \in {Returned(i) : i \in IndexInputs}
     \/ cv_pc = "parse" /\ cv_str \in ParseInputs /\ cv_idx = Returned(<<>>)

CoordToIndex ==
  /\ cv_pc = "coord"
  /\ cv_idx' = coord_to_index(cv_str)
  /\ cv_pc' = "coord_index"
  /\ UNCHANGED <<game_vars, ret, moved, valid, out, calls, main_pc, raised, parsed, cv_str, cv_back>>

CoordToIndexToCoord ==
  /\ cv_pc = "coord_index"
  /\ cv_idx.raised = "none"
  /\ cv_back' = index_to_coord(cv_idx.value[1], cv_idx.value[2])
  /\ cv_pc' = "coord_index_coord"
  /\ UNCHANGED <<game_vars, ret, moved, valid, out, calls, main_pc, raised, parsed, cv_str, cv_idx>>

IndexToCoord ==
  /\ cv_pc = "index"
  /\ cv_str' = index_to_coord(cv_idx.value[1], cv_idx.value[2])
  /\ cv_pc' = "index_coord"
  /\ UNCHANGED <<game_vars, ret, moved, valid, out, calls, main_pc, raised, parsed, cv_idx, cv_back>>

IndexToCoordToIndex ==
  /\ cv_pc = "index_coord"
  /\ cv_back' = coord_to_index(cv_str)
  /\ cv_pc' = "index_coord_index"
  /\ UNCHANGED <<game_vars, ret, moved, valid, out, calls, main_pc, raised, parsed, cv_str, cv_idx>>

ParsePosition ==
  /\ cv_pc = "parse"
  /\ parsed' = parse_position(cv_str[1], cv_str[2])
  /\ cv_pc' = "parsed"
  /\ UNCHANGED <<game_vars, ret, moved, valid, out, calls, main_pc, raised, cv_str, cv_idx, cv_back>>

CoordNext ==
  \/ CoordToIndex
  \/ CoordToIndexToCoord
  \/ IndexToCoord
  \/ IndexToCoordToIndex
  \/ ParsePosition

SpecCoord == CoordInit /\ [][CoordNext]_vars

(***************************************************************************)
(* The claims.  Squares are named by file 1..8 (a..h) and rank 1..8.       *)
(***************************************************************************)
\* the key of the square a (col, row) tuple names: col 0 is file a, row 0 rank 8
KeyOf(square) == Str(square[1] + 1, 8 - square[2])

Occupied(key) == key \in DOMAIN init_pos

\* the directions of a sliding class, as (file, rank) steps
Straight == {<<0, 1>>, <<1, 0>>, <<0, -1>>, <<-1, 0>>}
Diagonal == {<<1, 1>>, <<1, -1>>, <<-1, 1>>, <<-1, -1>>}

Rays(cls) ==
  CASE cls = "Rook" -> Straight
    [] cls = "Bishop" -> Diagonal
    [] cls = "Queen" -> Straight \cup Diagonal

\* the (file, rank) k steps from key along d
Step(key, d, k) == <<FileOf(key) + (k * d[1]), RankOf(key) + (k * d[2])>>

OnBoard(place) == place[1] \in 1..8 /\ place[2] \in 1..8

Sliders == {key \in DOMAIN init_pos : init_pos[key].cls \in {"Rook", "Bishop", "Queen"}}

\* the legal-destination set of the piece on key
Legal(key) == valid_moves(init_pos[key], init_pos)

\* a square lies beyond an occupied one: k steps along d, with a piece nearer
Beyond(key, d, k) ==
  /\ OnBoard(Step(key, d, k))
  /\ \E j \in 1..(k - 1) : Occupied(Str(Step(key, d, j)[1], Step(key, d, j)[2]))

\* C1: in every reachable state the legal set of a rook, bishop or queen holds
\* no square beyond the first occupied square of a direction; the white rook
\* on a1 behind the white pawn on a2 has no legal destination on the a-file.
C1_SlidersNeverJump ==
  /\ \A key \in Sliders : \A d \in Rays(init_pos[key].cls) : \A k \in 2..7 :
       Beyond(key, d, k) => ~InList(Str(Step(key, d, k)[1], Step(key, d, k)[2]), Legal(key))
  /\ (/\ Occupied(Str(1, 1)) /\ init_pos[Str(1, 1)].cls = "Rook"
      /\ init_pos[Str(1, 1)].color = "WHITE"
      /\ Occupied(Str(1, 2)) /\ init_pos[Str(1, 2)].cls = "Pawn"
      /\ init_pos[Str(1, 2)].color = "WHITE")
     => \A rank \in 1..8 : ~InList(Str(1, rank), Legal(Str(1, 1)))

\* a step of the model is a make_move call
Called == calls' = calls + 1

\* C2: a make_move call returns True or False; one that returns False leaves
\* the board (with every piece's position and first-move flag), the turn and
\* the outcome unchanged; and a call returns True only if the outcome was
\* UNFINISHED, the origin held a piece of the color on turn and the
\* destination was in that piece's legal set, so that it returns False
\* whenever one of these fails.
C2_RejectedCallChangesNothing ==
  [][Called =>
       /\ ret' \in {"True", "False"}
       /\ ret' = "False" => UNCHANGED game_vars
       /\ ret' = "True" =>
            /\ game_state = "UNFINISHED"
            /\ Occupied(KeyOf(moved'[1]))
            /\ init_pos[KeyOf(moved'[1])].color = player_turn
            /\ InList(KeyOf(moved'[2]), Legal(KeyOf(moved'[1])))]_vars

\* WHITE e2 -> e5 (or another move outside the legal set) was rejected on the
\* initial board: the two messages of that rejection were printed
C2_Witness ==
  /\ calls = 1
  /\ ret = "False"
  /\ Len(out) = 2
  /\ out[1] = Line("That move is unavailable for the given piece, please try again.")
  /\ init_pos = board_start
  /\ player_turn = "WHITE"
  /\ ~InList(Str(5, 5), Legal(Str(5, 2)))

\* C3: after an accepted make_move(from, to) the origin is empty, the
\* destination holds the piece that was on the origin, its stored position
\* the destination, every other square is as before, and the turn has
\* toggled exactly if the outcome is still UNFINISHED.
C3_AcceptedMoveEffect ==
  [][(Called /\ ret' = "True") =>
       LET from == KeyOf(moved'[1])
           to == KeyOf(moved'[2])
       IN  /\ from \notin DOMAIN init_pos'
           /\ to \in DOMAIN init_pos'
           /\ init_pos'[to].cls = init_pos[from].cls
           /\ init_pos'[to].color = init_pos[from].color
           /\ init_pos'[to].position = to
           /\ DOMAIN init_pos' \ {to} = DOMAIN init_pos \ {from, to}
           /\ \A key \in DOMAIN init_pos \ {from, to} : init_pos'[key] = init_pos[key]
           /\ (player_turn' # player_turn) <=> (game_state' = "UNFINISHED")]_vars

\* WHITE e2 -> e4 on the initial board: the pawn is on e4, the turn is BLACK
C3_Witness ==
  /\ calls = 1
  /\ ret = "True"
  /\ moved = << <<4, 6>>, <<4, 4>> >>
  /\ ~Occupied(Str(5, 2))
  /\ Occupied(Str(5, 4))
  /\ init_pos[Str(5, 4)].cls = "Pawn"
  /\ init_pos[Str(5, 4)].position = Str(5, 4)
  /\ player_turn = "BLACK"

\* the destination of the accepted call held a king before it
KingTaken ==
  /\ Occupied(KeyOf(moved'[2]))
  /\ init_pos[KeyOf(moved'[2])].cls = "King"

\* the WON state of the color that moved in the accepted call
MoverWon == IF init_pos[KeyOf(moved'[1])].color = "WHITE" THEN "WHITE_WON" ELSE "BLACK_WON"

\* C4: the outcome leaves UNFINISHED only in an accepted make_move whose
\* destination held a King; that call sets the WON state of the mover's
\* color and toggles no turn; an accepted move whose destination held no
\* King leaves the outcome UNFINISHED.
C4_KingCaptureDecides ==
  [][/\ (game_state = "UNFINISHED" /\ game_state' # "UNFINISHED")
          => (Called /\ ret' = "True" /\ KingTaken)
     /\ (Called /\ ret' = "True" /\ KingTaken)
          => (game_state' = MoverWon /\ player_turn' = player_turn
              /\ player_turn = init_pos[KeyOf(moved'[1])].color)
     /\ (Called /\ ret' = "True" /\ ~KingTaken)
          => game_state' = "UNFINISHED"]_vars

\* the white queen took the black king on d8: WHITE_WON, the turn still WHITE
C4_Witness ==
  /\ ret = "True"
  /\ moved = << <<3, 7>>, <<3, 0>> >>
  /\ game_state = "WHITE_WON"
  /\ player_turn = "WHITE"
  /\ init_pos[Str(4, 8)].cls = "Queen"

\* C5: once the outcome is WHITE_WON or BLACK_WON it never changes, and every
\* later make_move returns False and changes neither the board nor the turn.
C5_OutcomeMonotonic ==
  [][game_state # "UNFINISHED" =>
       /\ game_state' = game_state
       /\ Called => (ret' = "False" /\ init_pos' = init_pos /\ player_turn' = player_turn)]_vars

\* a make_move call was made after the game was won, and returned False
C5_Witness ==
  /\ game_state \in {"WHITE_WON", "BLACK_WON"}
  /\ calls = 2
  /\ ret = "False"

\* the class on a file of a home rank in chess: queen on d, king on e
CanonicalHomeRank ==
  <<"Rook", "Knight", "Bishop", "Queen", "King", "Bishop", "Knight", "Rook">>

CanonicalClass(key) == IF RankOf(key) \in {2, 7} THEN "Pawn" ELSE CanonicalHomeRank[FileOf(key)]

CanonicalColor(key) == IF RankOf(key) \in {1, 2} THEN "WHITE" ELSE "BLACK"

\* C6: a new game has exactly 32 pieces, each on its canonical starting
\* square with the canonical class and color, every other square empty, the
\* outcome UNFINISHED and the turn WHITE.
C6_CanonicalStart ==
  calls = 0 =>
    /\ Cardinality(DOMAIN init_pos) = 32
    /\ DOMAIN init_pos = {Str(file, rank) : file \in 1..8, rank \in {1, 2, 7, 8}}
    /\ \A key \in DOMAIN init_pos :
         /\ init_pos[key].cls = CanonicalClass(key)
         /\ init_pos[key].color = CanonicalColor(key)
         /\ init_pos[key].position = key
    /\ game_state = "UNFINISHED"
    /\ player_turn = "WHITE"

\* C7: every illegal move attempt on the console (a line that parses, and
\* no move applied) ends with a failure result and at least one diagnostic
\* message after the prompt.
C7_NoSilentRejection ==
  (main_pc = "loop" /\ calls > 0 /\ valid # "NotCalled" /\ ret # "True") =>
    /\ valid = "False" \/ ret = "False"
    /\ Len(out) > 1

\* the lines the claim calls malformed: fewer than two tokens, or one of the
\* first two tokens of a wrong length or with a letter or digit out of range
MalformedLines ==
  {curr_move \in Lines :
     \/ Len(curr_move) < 2
     \/ curr_move[1] \in BadTokens
     \/ curr_move[2] \in BadTokens}

\* C8: on every malformed line the loop raises no unhandled error, prints a
\* diagnostic, leaves board, turn and outcome unchanged and prompts again.
C8_MalformedLineHandled ==
  [][\A curr_move \in MalformedLines :
       ReadLine(curr_move) =>
         /\ raised' = "none"
         /\ main_pc' = "loop"
         /\ Len(out') > 1
         /\ UNCHANGED game_vars]_vars

\* a two-character token whose letter is outside a-h or whose digit is
\* outside 1-8
OutOfRange(token) ==
  /\ Len(token) = 2
  /\ \/ lower_char(token[1]) \notin 97..104
     \/ token[2] \notin 49..56

\* C9: parse_position returns (None, None) for a token whose letter or digit
\* is out of range, and never a (col, row) with a component outside 0..7.
C9_OutOfRangeIsError ==
  cv_pc = "parsed" =>
    /\ (OutOfRange(cv_str[1]) \/ OutOfRange(cv_str[2])) => parsed.none
    /\ ~parsed.none =>
         \A i \in 1..2 : \A j \in 1..2 : parsed.ret[i][j] \in 0..7

\* C10: on the 64 squares index_to_coord(coord_to_index(s)) = s and
\* coord_to_index(index_to_coord(col, row)) = (col, row), col 0 being file
\* a and row 0 rank 8.
C10_RoundTrip ==
  /\ (cv_pc = "coord_index" /\ cv_str \in Notations)
       => cv_idx = Returned(<<FileOf(cv_str) - 1, 8 - RankOf(cv_str)>>)
  /\ (cv_pc = "coord_index_coord" /\ cv_str \in Notations)
       => cv_back = cv_str
  /\ cv_pc \in {"index_coord", "index_coord_index"}
       => cv_str = KeyOf(cv_idx.value)
  /\ cv_pc = "index_coord_index"
       => cv_back = cv_idx

\* (0, 0) was written as a8 and read back as (0, 0)
C10_Witness ==
  /\ cv_pc = "index_coord_index"
  /\ cv_idx = Returned(<<0, 0>>)
  /\ cv_str = Str(1, 8)
  /\ cv_back = Returned(<<0, 0>>)

\* the key of a (file, rank) place
Key(place) == Str(place[1], place[2])

\* the key holds a piece of the color / of the other color
Friendly(key, color) == Occupied(key) /\ init_pos[key].color = color
Hostile(key, color) == Occupied(key) /\ init_pos[key].color # color

\* the first occupied square from key along d is k steps away
FirstMet(key, d, k) ==
  /\ OnBoard(Step(key, d, k))
  /\ Occupied(Key(Step(key, d, k)))
  /\ \A j \in 1..(k - 1) : ~Occupied(Key(Step(key, d, j)))

\* C11: for a rook, bishop or queen the first occupied square met in a
\* direction is in the legal set exactly if it holds an opponent piece, and
\* no square holding a piece of the slider's own color is in its legal set.
C11_FirstMetIffOpponent ==
  \A key \in Sliders :
    LET legal == Legal(key)
        color == init_pos[key].color
    IN  /\ \A d \in Rays(init_pos[key].cls) : \A k \in 1..7 :
             FirstMet(key, d, k) =>
               (InList(Key(Step(key, d, k)), legal) <=> Hostile(Key(Step(key, d, k)), color))
        /\ \A i \in 1..Len(legal) : ~Friendly(legal[i], color)

\* the white queen stands on d7 after d1 x d7: the first squares it meets are
\* the black king on d8 (legal), and the white pawn on d2 (not legal)
C11_Witness ==
  /\ Occupied(Str(4, 7))
  /\ init_pos[Str(4, 7)].cls = "Queen"
  /\ init_pos[Str(4, 7)].color = "WHITE"
  /\ FirstMet(Str(4, 7), <<0, 1>>, 1)
  /\ InList(Str(4, 8), Legal(Str(4, 7)))
  /\ FirstMet(Str(4, 7), <<0, -1>>, 5)
  /\ ~InList(Str(4, 2), Legal(Str(4, 7)))

Pawns == {key \in DOMAIN init_pos : init_pos[key].cls = "Pawn"}

\* the rank a pawn of the color starts on, and the step of rank it advances by
StartRank(color) == IF color = "WHITE" THEN 2 ELSE 7
Forward(color) == IF color = "WHITE" THEN 1 ELSE -1

\* the (file, rank) n squares ahead of the pawn on key
Ahead(key, n) == <<FileOf(key), RankOf(key) + (n * Forward(init_pos[key].color))>>

OnStart(key) == RankOf(key) = StartRank(init_pos[key].color)

\* a pawn on its starting square has both advances when both squares are
\* empty; a pawn elsewhere has moved, its flag is false and the square two
\* ahead is not in its legal set
C12_PawnsNow ==
  \A key \in Pawns :
    LET legal == Legal(key)
    IN  /\ (OnStart(key) /\ ~Occupied(Key(Ahead(key, 1))) /\ ~Occupied(Key(Ahead(key, 2))))
             => (InList(Key(Ahead(key, 1)), legal) /\ InList(Key(Ahead(key, 2)), legal))
        /\ OnStart(key) <=> init_pos[key].init_move
        /\ ~init_pos[key].init_move => ~InList(Key(Ahead(key, 2)), legal)

\* an accepted move leaves the flag of the pawn it moved false, and no step
\* gives a pawn a true flag it did not have on the same square before
C12_FlagStaysFalse ==
  /\ (Called /\ ret' = "True" /\ init_pos'[KeyOf(moved'[2])].cls = "Pawn")
       => ~init_pos'[KeyOf(moved'[2])].init_move
  /\ \A key \in DOMAIN init_pos' :
       (init_pos'[key].cls = "Pawn" /\ init_pos'[key].init_move)
         => (Occupied(key) /\ init_pos[key] = init_pos'[key])

\* C12: a pawn on its starting square has the one-square and the two-square
\* advance in its legal set when both squares are empty; once a pawn has made
\* an accepted move its first-move flag is false in every later state and the
\* two-square advance is never in its legal set again.
C12_DoubleAdvanceOnlyOnce == []C12_PawnsNow /\ [][C12_FlagStaysFalse]_vars

\* the white e-pawn went e2 -> e3 and black has moved since: its flag is
\* false and e5, empty, is not in its legal set, while the pawn on d2 still
\* has d3 and d4
C12_Witness ==
  /\ calls = 2
  /\ ret = "True"
  /\ Occupied(Str(5, 3))
  /\ init_pos[Str(5, 3)].cls = "Pawn"
  /\ ~init_pos[Str(5, 3)].init_move
  /\ ~Occupied(Str(5, 4))
  /\ ~Occupied(Str(5, 5))
  /\ InList(Str(5, 4), Legal(Str(5, 3)))
  /\ ~InList(Str(5, 5), Legal(Str(5, 3)))
  /\ Occupied(Str(4, 2))
  /\ init_pos[Str(4, 2)].init_move
  /\ InList(Str(4, 3), Legal(Str(4, 2)))
  /\ InList(Str(4, 4), Legal(Str(4, 2)))

\* the (file, rank) on a forward diagonal of the pawn on key, side -1 or 1
AheadBeside(key, side) == <<FileOf(key) + side, RankOf(key) + Forward(init_pos[key].color)>>

\* C13: every square in a pawn's legal set is an empty square straight ahead
\* (one or two squares) or a forward-diagonal square holding an opponent
\* piece: never an empty or friendly forward diagonal, never an occupied
\* square straight ahead, never a square behind or beside the pawn.
C13_PawnDestinations ==
  \A key \in Pawns :
    LET legal == Legal(key)
        color == init_pos[key].color
    IN  \A i \in 1..Len(legal) :
          \/ legal[i] \in {Key(Ahead(key, 1)), Key(Ahead(key, 2))} /\ ~Occupied(legal[i])
          \/ legal[i] \in {Key(AheadBeside(key, -1)), Key(AheadBeside(key, 1))}
             /\ Hostile(legal[i], color)

\* the white queen stands on d6: the black pawns on c7 and e7 may take it,
\* the pawn on d7 may not advance, and no pawn has an empty diagonal (c6 for
\* the pawn on b7) in its legal set
C13_Witness ==
  /\ Occupied(Str(4, 6))
  /\ init_pos[Str(4, 6)].color = "WHITE"
  /\ \A file \in {2, 3, 4, 5} : Occupied(Str(file, 7)) /\ init_pos[Str(file, 7)].cls = "Pawn"
  /\ InList(Str(4, 6), Legal(Str(3, 7)))
  /\ InList(Str(4, 6), Legal(Str(5, 7)))
  /\ ~InList(Str(4, 6), Legal(Str(4, 7)))
  /\ ~Occupied(Str(3, 6))
  /\ ~InList(Str(3, 6), Legal(Str(2, 7)))

\* C14: a pawn whose first-move flag is true has the two-square advance in
\* its legal set whenever that square is on the board and empty, whether the
\* square between is occupied or not.
C14_DoubleAdvanceJumps ==
  \A key \in Pawns :
    (init_pos[key].init_move /\ OnBoard(Ahead(key, 2)) /\ ~Occupied(Key(Ahead(key, 2))))
      => InList(Key(Ahead(key, 2)), Legal(key))

\* the white queen stands on d3, in front of the pawn on d2, which has d4 in
\* its legal set and d3 not
C14_Witness ==
  /\ Occupied(Str(4, 2))
  /\ init_pos[Str(4, 2)].cls = "Pawn"
  /\ init_pos[Str(4, 2)].init_move
  /\ Occupied(Str(4, 3))
  /\ ~Occupied(Str(4, 4))
  /\ InList(Str(4, 4), Legal(Str(4, 2)))
  /\ ~InList(Str(4, 3), Legal(Str(4, 2)))

\* the offsets of a knight and of a king, as (file, rank) steps
Leaps == {<<2, 1>>, <<1, 2>>, <<-1, 2>>, <<-2, 1>>, <<-2, -1>>, <<-1, -2>>, <<1, -2>>, <<2, -1>>}
Adjacent == Straight \cup Diagonal

Offsets(cls) == IF cls = "Knight" THEN Leaps ELSE Adjacent

Steppers == {key \in DOMAIN init_pos : init_pos[key].cls \in {"Knight", "King"}}

\* C15: the legal set of a knight or a king is exactly the set of squares on
\* the board at its eight offsets that hold no piece of its own color; what
\* stands between and what attacks the square play no part.
C15_KnightKingDestinations ==
  \A key \in Steppers :
    LET legal == Legal(key)
    IN  {legal[i] : i \in 1..Len(legal)} =
          {Key(Step(key, d, 1)) : d \in
             {o \in Offsets(init_pos[key].cls) :
                /\ OnBoard(Step(key, o, 1))
                /\ ~Friendly(Key(Step(key, o, 1)), init_pos[key].color)}}

\* the white queen stands on d7 after d1 x d7: the black king on d8 and the
\* black knight on b8 may take it, the king may not step on c8 or e8 (its
\* own pieces), and d7 is attacked by the king's own neighbours all the same
C15_Witness ==
  /\ Occupied(Str(4, 7))
  /\ init_pos[Str(4, 7)].color = "WHITE"
  /\ Occupied(Str(4, 8))
  /\ init_pos[Str(4, 8)].cls = "King"
  /\ Legal(Str(4, 8)) = <<Str(4, 7)>>
  /\ Occupied(Str(2, 8))
  /\ init_pos[Str(2, 8)].cls = "Knight"
  /\ InList(Str(4, 7), Legal(Str(2, 8)))
  /\ InList(Str(1, 6), Legal(Str(2, 8)))

PieceClasses == {"Pawn", "Rook", "Knight", "Bishop", "Queen", "King"}

\* C16: in every reachable state each key of the board holds one piece, each
\* key is the one notation of its square (so that no two keys name the same
\* square), and the position stored in each piece is the key the board holds
\* it under.
C16_PositionMatchesKey ==
  /\ \A key \in DOMAIN init_pos :
       /\ init_pos[key] # None
       /\ init_pos[key].cls \in PieceClasses
       /\ init_pos[key].position = key
  /\ \A key \in DOMAIN init_pos : key = KeyOf(coord_to_index(key).value)

\* the white queen took the pawn on d7: d7 holds one piece, the queen, whose
\* stored position is d7, d1 is empty and 31 pieces are left
C16_Witness ==
  /\ ret = "True"
  /\ moved = << <<3, 7>>, <<3, 1>> >>
  /\ ~Occupied(Str(4, 1))
  /\ Occupied(Str(4, 7))
  /\ init_pos[Str(4, 7)].cls = "Queen"
  /\ init_pos[Str(4, 7)].position = Str(4, 7)
  /\ Cardinality(DOMAIN init_pos) = 31

\* the squares move generation asks the board about for the piece on key
Queried(key) == queried(init_pos[key], init_pos)

\* C17: in every reachable state every key of the board, every square move
\* generation asks the board about and every square it returns is one of the
\* 64 squares a1..h8, for a pawn on its farthest rank as for any piece.
C17_NoSquareOutsideGrid ==
  \A key \in DOMAIN init_pos :
    LET asked == Queried(key)
        legal == Legal(key)
    IN  /\ key \in Notations
        /\ \A i \in 1..Len(asked) : asked[i] \in Notations
        /\ \A i \in 1..Len(legal) : legal[i] \in Notations

\* the renders among the records printed
Renders(printed) == {i \in 1..Len(printed) : printed[i].kind = "board"}

\* C18: an accepted make_move prints exactly one render and a rejected one
\* none; the render is of the board after the move and its status line
\* names, while the outcome is UNFINISHED, the player who moves next
\* (otherwise the winning color).
C18_RenderShowsNextPlayer ==
  [][Called =>
       /\ ret' = "False" => Renders(out') = {}
       /\ ret' = "True" =>
            /\ Cardinality(Renders(out')) = 1
            /\ out' = display_board(init_pos', player_turn', game_state')]_vars

\* the color that moved in the last accepted call: its piece stands on the
\* destination of that call until the next accepted call
LastMover == init_pos[KeyOf(moved[2])].color

\* the color of the piece the accepted call moves
Mover == init_pos[KeyOf(moved'[1])].color

\* C19: the first accepted call moves a WHITE piece and each later one a
\* piece of the other color than the one before; the mover is the color on
\* turn; a rejected call leaves the turn as it is; and the call that ends
\* the game leaves the turn on the winner's color.
C19_ColorsAlternate ==
  [][Called =>
       /\ ret' = "False" => player_turn' = player_turn
       /\ ret' = "True" =>
            /\ Mover = player_turn
            /\ Mover = (IF moved = <<>> THEN "WHITE"
                        ELSE IF LastMover = "WHITE" THEN "BLACK" ELSE "WHITE")
            /\ game_state' = "UNFINISHED" => player_turn' # player_turn
            /\ game_state' # "UNFINISHED" =>
                 (player_turn' = Mover /\ game_state' = won_state(Mover))]_vars

\* two calls were accepted, WHITE's and then BLACK's: the piece last moved is
\* BLACK and the turn is WHITE's again
C19_Witness ==
  /\ calls = 2
  /\ ret = "True"
  /\ game_state = "UNFINISHED"
  /\ init_pos # board_start
  /\ init_pos[KeyOf(moved[2])].color = "BLACK"
  /\ player_turn = "WHITE"

\* the pieces of a color on a board
Pieces(pos, color) == {key \in DOMAIN pos : pos[key].color = color}

\* C20: no call adds a piece to the board; an accepted call removes at most
\* one piece, a piece it removes (the one that stood on the destination) is
\* of the other color than the mover, and the mover's color has as many
\* pieces after the call as before.
C20_NoFriendlyCapture ==
  [][Called =>
       /\ Cardinality(DOMAIN init_pos') <= Cardinality(DOMAIN init_pos)
       /\ ret' = "True" =>
            /\ Cardinality(DOMAIN init_pos') >= Cardinality(DOMAIN init_pos) - 1
            /\ Occupied(KeyOf(moved'[2])) => init_pos[KeyOf(moved'[2])].color # Mover
            /\ Cardinality(Pieces(init_pos', Mover)) = Cardinality(Pieces(init_pos, Mover))]_vars

\* a capture was made: one color has its 16 pieces, the other 15, and the
\* piece on the destination is of the color that has 16
C20_Witness ==
  /\ ret = "True"
  /\ Cardinality(DOMAIN init_pos) = 31
  /\ Cardinality(Pieces(init_pos, init_pos[KeyOf(moved[2])].color)) = 16

\* the king of the color is on the board
KingOn(color) ==
  \E key \in DOMAIN init_pos : init_pos[key].cls = "King" /\ init_pos[key].color = color

\* C21: in every state reachable from a new game by make_move calls the
\* outcome is UNFINISHED exactly if both kings are on the board, WHITE_WON
\* exactly if the black king is gone and the white king is there, BLACK_WON
\* exactly if the white king is gone and the black king is there; the two
\* kings are never both gone.
C21_OutcomeAgreesWithKings ==
  /\ game_state = "UNFINISHED" <=> (KingOn("WHITE") /\ KingOn("BLACK"))
  /\ game_state = "WHITE_WON" <=> (KingOn("WHITE") /\ ~KingOn("BLACK"))
  /\ game_state = "BLACK_WON" <=> (KingOn("BLACK") /\ ~KingOn("WHITE"))
  /\ KingOn("WHITE") \/ KingOn("BLACK")

\* the black queen went e8 x e1 over its own pawn: the white king is gone,
\* the black king stands on d8 and the outcome is BLACK_WON
C21_Witness ==
  /\ game_state = "BLACK_WON"
  /\ ~KingOn("WHITE")
  /\ KingOn("BLACK")
  /\ Occupied(Str(5, 1))
  /\ init_pos[Str(5, 1)].cls = "Queen"
  /\ init_pos[Str(5, 1)].color = "BLACK"

====
